---- MODULE Spec2Model ----
(***************************************************************************)
(* Link18 JDAM time-to-impact core: the GBU-62 trajectory simulator        *)
(* (src/jdamertti.py, GBU62_Simulator), the munition tracker (BombTracker) *)
(* and the HUD entry points that drive them (src/gbu_hud.py).              *)
(*                                                                         *)
(* Number representation.  The program computes in IEEE-754 doubles.       *)
(*  - Elapsed time t is kept EXACTLY: a double below 1024 that is a        *)
(*    multiple of 2^-56 is held as five 16-bit limbs (little endian) of    *)
(*    the integer t * 2^56, and t += dt is the correctly rounded double    *)
(*    addition (round to nearest, ties to even, 53-bit significand).       *)
(*  - The flight state is fixed point: position cm, speed cm/s,            *)
(*    acceleration cm/s^2, force cN (0.01 N), angles micro-radians,        *)
(*    degrees in milli-degrees, coefficients, ratios, Mach and trig values *)
(*    scaled by 10^4.  Every product stays inside 32 bits.                 *)
(*  - Wall-clock time is in milliseconds.                                  *)
(***************************************************************************)
EXTENDS Integers, Sequences, FiniteSets, TLC

(***************************************************************************)
(* Fixed-point arithmetic standing for Python float arithmetic and the     *)
(* math module.                                                            *)
(***************************************************************************)
Abs(a) == IF a < 0 THEN -a ELSE a

Sgn(a) == IF a < 0 THEN -1 ELSE 1

Max2(a, b) == IF a >= b THEN a ELSE b

Min2(a, b) == IF a <= b THEN a ELSE b

\* a / c rounded to nearest (half away from zero), c > 0
RoundDiv(a, c) == Sgn(a) * ((Abs(a) + c \div 2) \div c)

\* a * b / c rounded to nearest, exact for 0 < c <= 10^6 without leaving 32 bits
MulDiv(a, b, c) ==
    LET A  == Abs(a)
        B  == Abs(b)
        qa == A \div c
        ra == A % c
        b2 == B \div 1000000
        b1 == (B \div 1000) % 1000
        b0 == B % 1000
        t2 == ra * b2
        t1 == (t2 % c) * 1000 + ra * b1
        t0 == (t1 % c) * 1000 + ra * b0
        q  == qa * B + (((t2 \div c) * 1000 + (t1 \div c)) * 1000 + (t0 \div c))
    IN  Sgn(a) * Sgn(b) * (q + (IF 2 * (t0 % c) >= c THEN 1 ELSE 0))

\* max(min(x, hi), lo): the clamp idiom of the source
Clamp(x, lo, hi) == Max2(Min2(x, hi), lo)

RECURSIVE Newton(_, _)
Newton(n, g) ==
    LET h == (g + n \div g) \div 2
    IN  IF h >= g THEN g ELSE Newton(n, h)

\* math.sqrt on a non-negative integer: floor of the square root
Isqrt(n) ==
    IF n < 2 THEN n
    ELSE Newton(n, IF n < 65536 THEN 256 ELSE IF n < 16777216 THEN 4096 ELSE 46340)

PI == 3141593

HALF_PI == 1570796

\* sin of x4 * 10^-4 rad for |x4| <= pi/2, scaled 10^4 (Taylor, 5 terms)
SinQ(x4) ==
    LET x2 == RoundDiv(x4 * x4, 10000)
        u1 == 10000 - RoundDiv(x2, 72)
        u2 == 10000 - RoundDiv(x2 * u1, 420000)
        u3 == 10000 - RoundDiv(x2 * u2, 200000)
        u4 == 10000 - RoundDiv(x2 * u3, 60000)
    IN  RoundDiv(x4 * u4, 10000)

\* an angle in urad brought into (-pi, pi]
Wrap(a) ==
    IF a > PI \/ a <= -PI THEN a - 2 * PI * ((a + PI - 1) \div (2 * PI)) ELSE a

\* math.sin: angle in urad, result scaled 10^4
Sin(a) ==
    LET w == Wrap(a)
        f == IF w > HALF_PI THEN PI - w ELSE IF w < -HALF_PI THEN -PI - w ELSE w
    IN  SinQ(RoundDiv(f, 100))

\* math.cos: angle in urad, result scaled 10^4
Cos(a) == Sin(a + HALF_PI)

\* atan of r * 10^-4 for 0 <= r <= 10^4, in urad (odd minimax polynomial)
AtanQ(r) ==
    LET r2 == RoundDiv(r * r, 10000)
        p1 == 52653 + RoundDiv(-11721 * r2, 10000)
        p2 == -116433 + RoundDiv(p1 * r2, 10000)
        p3 == 193543 + RoundDiv(p2 * r2, 10000)
        p4 == -332623 + MulDiv(p3, r2, 10000)
        p5 == 999977 + MulDiv(p4, r2, 10000)
    IN  MulDiv(p5, r, 10000)

\* atan2(ay, ax) in urad for ax, ay >= 0, not both 0
AtanFirst(ax, ay) ==
    IF ay <= ax THEN AtanQ(RoundDiv(ay * 10000, ax))
    ELSE HALF_PI - AtanQ(RoundDiv(ax * 10000, ay))

\* the first-quadrant angle a carried to the quadrant of (x, y)
ToQuadrant(a, y, x) ==
    IF y < 0 THEN -(IF x < 0 THEN PI - a ELSE a)
    ELSE IF x < 0 THEN PI - a ELSE a

\* math.atan2(y, x) in urad; atan2(0, 0) = 0
Atan2(y, x) ==
    LET k  == 1 + Max2(Abs(x), Abs(y)) \div 100000
        ax == Abs(x) \div k
        ay == Abs(y) \div k
    IN  IF Max2(ax, ay) = 0 THEN 0 ELSE ToQuadrant(AtanFirst(ax, ay), y, x)

\* math.sqrt(vx**2 + vy**2) in cm/s
Hypot(vx, vy) ==
    LET k == 1 + Max2(Abs(vx), Abs(vy)) \div 30000
        a == Abs(vx) \div k
        b == Abs(vy) \div k
    IN  k * Isqrt(a * a + b * b)

RECURSIVE Halve(_, _)
Halve(u, i) == IF i = 0 THEN u ELSE Halve(u \div 2, i - 1)

\* exp(-y * 10^-4) for 0 <= y < ln 2 (x10^4), scaled 10^4 (Taylor, 5 terms)
ExpFrac(y) ==
    LET u1 == 10000 - RoundDiv(y, 5)
        u2 == 10000 - RoundDiv(y * u1, 40000)
        u3 == 10000 - RoundDiv(y * u2, 30000)
        u4 == 10000 - RoundDiv(y * u3, 20000)
    IN  10000 - RoundDiv(y * u4, 10000)

\* 2^-(w * 10^-4) for w >= 0, scaled 10^4
Exp2Neg(w) ==
    Halve(ExpFrac(RoundDiv((w % 10000) * 6931, 10000)), Min2(w \div 10000, 14))

\* math.exp(-z4 * 10^-4) for z4 >= 0, scaled 10^4: 2^-(z / ln 2)
ExpNeg(z4) == Exp2Neg(MulDiv(z4, 14427, 10000))

\* math.degrees: urad -> millidegrees
Degrees(a) == MulDiv(a, 57296, 1000000)

\* math.radians: centidegrees -> urad
Radians(cdeg) == MulDiv(cdeg, 174533, 1000)

(***************************************************************************)
(* IEEE-754 doubles for elapsed time: <<l1, .., l5>>, 16-bit limbs, least  *)
(* significant first, of the integer t * 2^56.                             *)
(***************************************************************************)
LIMB == 65536

BigAdd(a, b) ==
    LET s1 == a[1] + b[1]
        s2 == a[2] + b[2] + s1 \div LIMB
        s3 == a[3] + b[3] + s2 \div LIMB
        s4 == a[4] + b[4] + s3 \div LIMB
        s5 == a[5] + b[5] + s4 \div LIMB
    IN  <<s1 % LIMB, s2 % LIMB, s3 % LIMB, s4 % LIMB, s5>>

\* a * m for 0 <= m < 2^15
BigMulSmall(a, m) ==
    LET p1 == a[1] * m
        p2 == a[2] * m + p1 \div LIMB
        p3 == a[3] * m + p2 \div LIMB
        p4 == a[4] * m + p3 \div LIMB
        p5 == a[5] * m + p4 \div LIMB
    IN  <<p1 % LIMB, p2 % LIMB, p3 % LIMB, p4 % LIMB, p5>>

BigLt(a, b) ==
    IF a[5] # b[5] THEN a[5] < b[5]
    ELSE IF a[4] # b[4] THEN a[4] < b[4]
    ELSE IF a[3] # b[3] THEN a[3] < b[3]
    ELSE IF a[2] # b[2] THEN a[2] < b[2]
    ELSE a[1] < b[1]

RECURSIVE BitLen(_)
BitLen(x) == IF x = 0 THEN 0 ELSE 1 + BitLen(x \div 2)

BigBitLen(a) ==
    IF a[5] # 0 THEN 64 + BitLen(a[5])
    ELSE IF a[4] # 0 THEN 48 + BitLen(a[4])
    ELSE IF a[3] # 0 THEN 32 + BitLen(a[3])
    ELSE IF a[2] # 0 THEN 16 + BitLen(a[2])
    ELSE BitLen(a[1])

RECURSIVE Pow2(_)
Pow2(s) == IF s = 0 THEN 1 ELSE 2 * Pow2(s - 1)

\* rounding of an exact sum to a 53-bit significand, nearest, ties to even
Round53(a) ==
    LET s    == BigBitLen(a) - 53
        p    == Pow2(s)
        low  == a[1] % p
        up   == 2 * low > p \/ (2 * low = p /\ (a[1] \div p) % 2 = 1)
        base == [a EXCEPT ![1] = a[1] - low]
    IN  IF s <= 0 THEN a
        ELSE IF up THEN BigAdd(base, <<p, 0, 0, 0, 0>>) ELSE base

\* an addition that leaves a unchanged
DblAddStuck(a, b) == a

\* the double a + b
DblAdd(a, b) == Round53(BigAdd(a, b))

\* a < b, a >= b, a > b on doubles
DblLt(a, b) == BigLt(a, b)

DblGe(a, b) == ~BigLt(a, b)

DblGt(a, b) == BigLt(b, a)

\* int(a / d) for doubles a >= 0, d > 0 with a / d < 2^14: the quotient rounded to
\* a double (it reaches the next integer when the exact quotient lies within half
\* an ulp below it) and then truncated
IntDiv(a, d) ==
    LET dtop == (d[4] * LIMB + d[3]) \div 256 + d[5] * LIMB * 256
        atop == a[5] * 16777216 + a[4] * 256 + a[3] \div 256
        est  == atop \div dtop
        q0   == CHOOSE q \in Max2(est - 6, 0)..(est + 6) :
                    ~BigLt(a, BigMulSmall(d, q)) /\ BigLt(a, BigMulSmall(d, q + 1))
        thr  == dtop \div Pow2(14 - BitLen(q0))
    IN  IF q0 = 0 THEN 0
        ELSE IF ~BigLt(BigAdd(a, <<thr, 0, 0, 0, 0>>), BigMulSmall(d, q0 + 1))
             THEN q0 + 1 ELSE q0

\* a double of seconds in milliseconds, rounded
TimeMs(a) ==
    LET p == BigMulSmall(a, 1000)
    IN  (p[4] + p[5] * LIMB + 128) \div 256

ZERO_T == <<0, 0, 0, 0, 0>>

\* dt = 0.05 (the double 3602879701896397 * 2^-56)
DT == <<52429, 52428, 52428, 12, 0>>

\* the loop ceiling 600
T_CEILING == <<0, 0, 0, 22528, 2>>

(***************************************************************************)
(* Module constants of jdamertti.py (scaled as stated in the header).      *)
(***************************************************************************)
\* BALLISTIC_DURATION = 2.5 and LOFT_TIMEOUT = 10.0 as doubles
BALLISTIC_DURATION == <<0, 0, 0, 640, 0>>

LOFT_TIMEOUT == <<0, 0, 0, 2560, 0>>

\* CL_ALPHA = 1.5 (x100), WING_AREA_MULT = 5.7262 (x10^4), MAX_FIN_AOA = 0.5 rad
CL_ALPHA == 150

WING_AREA_MULT == 57262

MAX_FIN_AOA == 500000

\* wave drag: Mach x10^4, DRAG_RISE_MAGNITUDE = 3.2 (x10)
MACH_CRITICAL == 12890

MACH_PEAK == 16000

DRAG_RISE_MAGNITUDE == 32

\* pitch schedule: Mach x10^4, pitch in centidegrees
MACH_HIGH == 9500

PITCH_LOW == 1149

PITCH_HIGH == 825

PITCH_DIVE == 1568

\* TERMINAL_DIST_THRESHOLD = 2000 m in cm; G_LIMIT = 2.75 (x100)
TERMINAL_DIST_THRESHOLD == 200000

G_LIMIT == 275

\* STEEP_DIVE_LOS = -19.04 deg in millidegrees; MAX_RANGE_GLIDE = 13.23 (x10^4)
STEEP_DIVE_LOS == -19040

MAX_RANGE_GLIDE == 132300

\* the glide ratio 999 used for altitude <= 0 (x10^4)
GLIDE_RATIO_GROUND == 9990000

PHYSICS_PROFILES ==
    [ STANDARD   |-> [ CD0 |-> 157, K |-> 155, CL_ALPHA |-> 385,
                       DRAG_MULT |-> 1000, LIFT_MULT |-> 1000,
                       P_LOW |-> 600, P_HIGH |-> 1300, TIME_SCALE |-> 1030,
                       M_LOW |-> 6000, M_HIGH |-> 8000, MAX_AOA |-> 386000,
                       SOLVER |-> "EULER", LOFT_ELEV |-> 5000, LOFT_GAIN |-> 85,
                       TERM_LOS |-> -5000 ],
      MAX_RANGE  |-> [ CD0 |-> 360, K |-> 15, CL_ALPHA |-> 150,
                       DRAG_MULT |-> 553, LIFT_MULT |-> 839,
                       P_LOW |-> 1149, P_HIGH |-> 825, TIME_SCALE |-> 1349,
                       M_LOW |-> 6000, M_HIGH |-> 9500, MAX_AOA |-> 500000,
                       SOLVER |-> "RK4", LOFT_ELEV |-> 35000, LOFT_GAIN |-> 50,
                       TERM_LOS |-> -1904 ],
      STEEP_DIVE |-> [ CD0 |-> 360, K |-> 15, CL_ALPHA |-> 150,
                       DRAG_MULT |-> 4471, LIFT_MULT |-> 868,
                       P_LOW |-> 1149, P_HIGH |-> 825, TIME_SCALE |-> 1050,
                       M_LOW |-> 6000, M_HIGH |-> 9500, MAX_AOA |-> 500000,
                       SOLVER |-> "RK4", LOFT_ELEV |-> 35000, LOFT_GAIN |-> 50,
                       TERM_LOS |-> -1904 ] ]

\* GBU62_Simulator.__init__: mass 289.72 kg (x100), area = pi * (0.273 / 2)^2 m^2
\* (x10^5), g = 9.81 m/s^2 in cm/s^2
MASS == 28972

AREA == 5854

GRAVITY == 981

\* mass * g in cN
WEIGHT == RoundDiv(MASS * GRAVITY, 100)

\* Range of the fixed-point angle-of-attack and acceleration commands.  A command
\* beyond it is held at the range end; both ends are far outside every MAX_AOA.
AOA_SAT == 100000000

ACC_SAT == 5000000

(***************************************************************************)
(* GBU62_Simulator: atmosphere, classifier, aerodynamics, integrators.     *)
(***************************************************************************)
\* get_mach_drag_mult(mach): Mach x10^4 -> multiplier x10^4
get_mach_drag_mult(mach) ==
    IF mach < MACH_CRITICAL THEN 10000
    ELSE IF mach < MACH_PEAK THEN
        LET ratio == RoundDiv((mach - MACH_CRITICAL) * 10000, MACH_PEAK - MACH_CRITICAL)
            s     == Sin(MulDiv(ratio, HALF_PI, 10000))
        IN  10000 + RoundDiv(RoundDiv(s * s, 10000) * DRAG_RISE_MAGNITUDE, 10)
    ELSE 10000 + 1000 * DRAG_RISE_MAGNITUDE

\* get_air_density(altitude): cm -> kg/m^3 x10^4
get_air_density(altitude) ==
    IF altitude < 0 THEN 12250
    ELSE RoundDiv(12250 * ExpNeg(RoundDiv(altitude * 2, 170)), 10000)

\* get_sound_speed(altitude): cm -> cm/s
get_sound_speed(altitude) ==
    LET lapse == 2881500 - MulDiv(altitude, 13, 20)
        temp  == IF lapse < 2166500 THEN 2166500 ELSE lapse
    IN  Isqrt(40187 * RoundDiv(temp, 100))

\* dist / alt (x10^4) for alt > 0; beyond 999 it is held at 999
GlideRatio(dist, alt) ==
    LET k == 1 + alt \div 1000000
    IN  IF Abs(dist) \div alt >= 999 THEN Sgn(dist) * GLIDE_RATIO_GROUND
        ELSE MulDiv(dist \div k, 10000, Max2(alt \div k, 1))

\* the classifier with the glide ratio taken as 0 at altitude <= 0
detect_flight_mode_ground0(alt, mach, dist) ==
    LET los_deg     == Degrees(Atan2(-alt, dist))
        glide_ratio == IF alt > 0 THEN GlideRatio(dist, alt) ELSE 0
    IN  IF los_deg < STEEP_DIVE_LOS THEN "STEEP_DIVE"
        ELSE IF glide_ratio > MAX_RANGE_GLIDE THEN "MAX_RANGE"
        ELSE "STANDARD"

\* detect_flight_mode(alt, mach, dist)
detect_flight_mode(alt, mach, dist) ==
    LET los_deg     == Degrees(Atan2(-alt, dist))
        glide_ratio == IF alt > 0 THEN GlideRatio(dist, alt) ELSE GLIDE_RATIO_GROUND
    IN  IF los_deg < STEEP_DIVE_LOS THEN "STEEP_DIVE"
        ELSE IF glide_ratio > MAX_RANGE_GLIDE THEN "MAX_RANGE"
        ELSE "STANDARD"

\* rho * v^2 in units of 1/200 Pa: q = 0.5 * rho * v**2
DynPressure(rho, v) ==
    LET vd == RoundDiv(v, 10)
    IN  MulDiv(vd * vd, rho, 10000)

\* q * self.area in cN
QArea(q) == MulDiv(q, AREA, 200000)

\* q * self.area * WING_AREA_MULT in cN
QWing(q) == MulDiv(QArea(q), WING_AREA_MULT, 10000)

\* the commanded angle of attack passed on without the clamp
AppliedAlphaUnclamped(params, target_aoa) == target_aoa

\* alpha = max(min(target_aoa, max_aoa), -max_aoa) of compute_derivatives
AppliedAlpha(params, target_aoa) ==
    Clamp(target_aoa, -params.MAX_AOA, params.MAX_AOA)

\* q * self.area * WING_AREA_MULT (cN) at altitude y and speed v
WingPressure(y, v) == QWing(DynPressure(get_air_density(y), v))

\* <<drag, lift>> of compute_derivatives (lines 174-186) for the applied angle
\* alpha, the Mach number and qw = q * self.area * WING_AREA_MULT
DragLift(params, alpha, mach, qw) ==
    LET cl == RoundDiv(params.CL_ALPHA * RoundDiv(alpha, 100), 100)
        cd == RoundDiv(params.CD0 * get_mach_drag_mult(mach), 10000)
                + RoundDiv(params.K * RoundDiv(cl * cl, 10000), 1000)
    IN  <<MulDiv(MulDiv(qw, cd, 10000), params.DRAG_MULT, 1000),
          MulDiv(MulDiv(qw, cl, 10000), params.LIFT_MULT, 1000)>>

\* lines 188-210: the forces resolved to the global frame; [vx, vy, ax, ay]
Resolve(vx, vy, force, sin_g, cos_g) ==
    LET drag == force[1]
        lift == force[2]
        fx   == -MulDiv(drag, cos_g, 10000) - MulDiv(lift, sin_g, 10000)
        fy   == -MulDiv(drag, sin_g, 10000) + MulDiv(lift, cos_g, 10000) - WEIGHT
    IN  <<vx, vy, MulDiv(fx, 100, MASS), MulDiv(fy, 100, MASS)>>

\* lines 161-210 for the speed v (at least 1.0 m/s) and the path angle of state
Derivatives(params, state, target_aoa, v, path_angle) ==
    Resolve(state[3], state[4],
            DragLift(params, AppliedAlpha(params, target_aoa),
                     MulDiv(v, 10000, get_sound_speed(state[2])),
                     WingPressure(state[2], v)),
            Sin(path_angle), Cos(path_angle))

\* compute_derivatives(state, target_aoa) under self.current_physics = params
compute_derivatives(params, state, target_aoa) ==
    Derivatives(params, state, target_aoa,
                Max2(Hypot(state[3], state[4]), 100), Atan2(state[4], state[3]))

\* s + k * h for the 4-component state, h = 1 / den seconds
Advance(state, k, den) ==
    [i \in 1..4 |-> state[i] + RoundDiv(k[i], den)]

\* lines 225-228: state[i] + (dt / 6.0) * (k1[i] + 2*k2[i] + 2*k3[i] + k4[i])
Rk4Sum(state, k1, k2, k3, k4) ==
    [i \in 1..4 |->
        state[i] + RoundDiv(k1[i] + 2 * k2[i] + 2 * k3[i] + k4[i], 120)]

\* lines 222-223: k4 from k3
Rk4Fourth(params, state, target_aoa, k1, k2, k3) ==
    Rk4Sum(state, k1, k2, k3,
           compute_derivatives(params, Advance(state, k3, 20), target_aoa))

\* lines 219-220: k3 from k2
Rk4Third(params, state, target_aoa, k1, k2) ==
    Rk4Fourth(params, state, target_aoa, k1, k2,
              compute_derivatives(params, Advance(state, k2, 40), target_aoa))

\* lines 216-217: k2 from k1
Rk4Second(params, state, target_aoa, k1) ==
    Rk4Third(params, state, target_aoa, k1,
             compute_derivatives(params, Advance(state, k1, 40), target_aoa))

\* rk4_step(t, state, dt, target_aoa) with dt = 0.05
rk4_step(params, state, target_aoa) ==
    Rk4Second(params, state, target_aoa,
              compute_derivatives(params, state, target_aoa))

\* the angle of attack euler_step applies: the legacy limit 0.386 when the bound
\* profile equals PHYSICS_PROFILES['STANDARD'], the profile's MAX_AOA otherwise
EulerAlpha(params, target_aoa) ==
    IF params = PHYSICS_PROFILES.STANDARD
    THEN Clamp(target_aoa, -386000, 386000)
    ELSE Clamp(target_aoa, -params.MAX_AOA, params.MAX_AOA)

\* <<drag, lift>> of euler_step (lines 244-270) for the applied angle alpha, its
\* sine s and the dynamic pressure q: the legacy coefficients (WA_MULT 3.5,
\* CX0 0.0257, CX_K 1.075) under the STANDARD profile, the profile's otherwise
EulerDragLift(params, alpha, mach, q, s) ==
    IF params = PHYSICS_PROFILES.STANDARD
    THEN <<MulDiv(MulDiv(QArea(q), 35, 10),
                  257 + MulDiv(RoundDiv(s * s, 10000), 37625, 10000), 10000),
           MulDiv(QArea(q), MulDiv(s, 21991, 1000), 10000)>>
    ELSE DragLift(params, alpha, mach, QWing(q))

\* lines 291-293: the new state from the new velocity
EulerState(state, vx_new, vy_new) ==
    <<state[1] + RoundDiv(vx_new, 20), state[2] + RoundDiv(vy_new, 20), vx_new, vy_new>>

\* lines 288-289: the new velocity from the new speed and path angle
EulerVelocity(state, v_new, pa_new) ==
    EulerState(state, MulDiv(v_new, Cos(pa_new), 10000), MulDiv(v_new, Sin(pa_new), 10000))

\* lines 283-286: the new speed (at least 10 m/s) and the new path angle
EulerTurn(state, v, path_angle, a_tan, a_norm) ==
    EulerVelocity(state, Max2(v + RoundDiv(a_tan, 20), 1000),
                  path_angle + (IF v > 100 THEN RoundDiv(a_norm * 50000, v) ELSE 0))

\* lines 272-281: the tangential and the (limited) normal acceleration
EulerAccel(state, v, path_angle, force) ==
    EulerTurn(state, v, path_angle,
              MulDiv(-force[1] - MulDiv(WEIGHT, Sin(path_angle), 10000), 100, MASS),
              Clamp(MulDiv(force[2] - MulDiv(WEIGHT, Cos(path_angle), 10000), 100, MASS),
                    -RoundDiv(G_LIMIT * GRAVITY, 100), RoundDiv(G_LIMIT * GRAVITY, 100)))

\* lines 238-293 for the speed and the path angle of state and the applied angle
EulerFrom(params, state, alpha, v, path_angle) ==
    EulerAccel(state, v, path_angle,
               EulerDragLift(params, alpha,
                             MulDiv(v, 10000, get_sound_speed(state[2])),
                             DynPressure(get_air_density(state[2]), v),
                             Sin(alpha)))

\* euler_step(t, state, dt, target_aoa) with dt = 0.05
euler_step(params, state, target_aoa) ==
    EulerFrom(params, state, EulerAlpha(params, target_aoa),
              Hypot(state[3], state[4]), Atan2(state[4], state[3]))

(***************************************************************************)
(* GBU62_Simulator.run: the locals of one call are a record ("frame").     *)
(***************************************************************************)
\* Altitude (cm) from which 1.225 * exp(-altitude / 8500) * 0.5 is the double 0.0,
\* so that q * self.area * WING_AREA_MULT is 0.0 and a division by it raises
\* ZeroDivisionError (exp underflows for an argument beyond about 745)
DENSITY_UNDERFLOW_ALT == 633400000

DensityVanishes(altitude) == altitude >= DENSITY_UNDERFLOW_ALT

\* (lift / (q * self.area * WING_AREA_MULT)) / CL_ALPHA in micro-radians,
\* for a non-zero denominator qw (cN)
AoaFromLift(lift, qw) ==
    LET d == Max2(qw, 1)
        k == 1 + d \div 1000000
        a == Abs(lift) \div k
        b == Max2(d \div k, 1)
    IN  IF a \div b >= 150 THEN Sgn(lift) * AOA_SAT
        ELSE Sgn(lift) * MulDiv(MulDiv(a, 10000, b), 10000, CL_ALPHA)

\* prev_los is None (the empty sequence) or a line-of-sight angle <<los>>
NoLos == << >>

\* lines 296-327: the locals at loop entry; the profile of the detected mode is
\* bound to self.current_physics (field physics of the frame's simulator view)
RunEntry(alt, mach, dist) ==
    LET sos  == get_sound_speed(alt)
        mode == detect_flight_mode(alt, mach, dist)
    IN  [ state     |-> <<0, alt, MulDiv(mach, sos, 10000), 0>>,
          t         |-> ZERO_T,
          phase     |-> "RELEASE",
          prev_los  |-> NoLos,
          mode      |-> mode,
          skip_loft |-> (mode = "STEEP_DIVE"),
          launch_alt_m      |-> alt,
          launch_speed_mach |-> mach,
          target_dist_m     |-> dist,
          history   |-> << >>,
          steps     |-> 0,
          commanded |-> 0,
          applied   |-> 0,
          raised    |-> FALSE ]

\* a loop that also steps from an altitude of exactly zero
LoopCondThroughGround(f) == f.state[2] >= 0 /\ DblLt(f.t, T_CEILING)

\* while state[1] > 0 and t < 600
LoopCond(f) == f.state[2] > 0 /\ DblLt(f.t, T_CEILING)

\* target pitch of the GLIDE phase in centidegrees (lines 366-375)
TargetPitch(params, mode, mach) ==
    IF mode = "STEEP_DIVE" THEN PITCH_DIVE
    ELSE IF mode = "MAX_RANGE"
         THEN (IF mach > MACH_HIGH THEN PITCH_HIGH ELSE PITCH_LOW)
    ELSE IF mach < params.M_LOW THEN params.P_LOW
    ELSE IF mach > params.M_HIGH THEN params.P_HIGH
    ELSE params.P_LOW
           + MulDiv(MulDiv(mach - params.M_LOW, 10000, params.M_HIGH - params.M_LOW),
                    params.P_HIGH - params.P_LOW, 10000)

\* if phase == "RELEASE": phase = "BALLISTIC" (lines 344-345)
EnterPhase(phase) == IF phase = "RELEASE" THEN "BALLISTIC" ELSE phase

\* BALLISTIC without its expiry
BallisticNextNever(skip_loft, t) == "BALLISTIC"

\* BALLISTIC always followed by LOFT
BallisticNextAlwaysLoft(skip_loft, t) ==
    IF DblGe(t, BALLISTIC_DURATION) THEN "LOFT" ELSE "BALLISTIC"

\* BALLISTIC: if t >= BALLISTIC_DURATION: phase = "GLIDE" if skip_loft else "LOFT"
BallisticNext(skip_loft, t) ==
    IF DblGe(t, BALLISTIC_DURATION) THEN (IF skip_loft THEN "GLIDE" ELSE "LOFT")
    ELSE "BALLISTIC"

\* LOFT left on the elevation only
LoftNextNoTimeout(params, path_angle_deg, t) ==
    IF path_angle_deg > params.LOFT_ELEV THEN "GLIDE" ELSE "LOFT"

\* LOFT: if path_angle_deg > loft_elev or t > LOFT_TIMEOUT: phase = "GLIDE"
LoftNext(params, path_angle_deg, t) ==
    IF path_angle_deg > params.LOFT_ELEV \/ DblGt(t, LOFT_TIMEOUT) THEN "GLIDE"
    ELSE "LOFT"

\* GLIDE left on the line of sight only
GlideNextLosOnly(params, los_angle, dist_to_go) ==
    IF los_angle < Radians(params.TERM_LOS) THEN "TERMINAL" ELSE "GLIDE"

\* GLIDE falling back to LOFT while the terminal test fails
GlideNextRelofts(params, los_angle, dist_to_go) ==
    IF los_angle < Radians(params.TERM_LOS) \/ dist_to_go < TERMINAL_DIST_THRESHOLD
    THEN "TERMINAL" ELSE "LOFT"

\* GLIDE: if los_angle < radians(term_los) or dist_to_go < 2000: phase = "TERMINAL"
GlideNext(params, los_angle, dist_to_go) ==
    IF los_angle < Radians(params.TERM_LOS) \/ dist_to_go < TERMINAL_DIST_THRESHOLD
    THEN "TERMINAL" ELSE "GLIDE"

\* TERMINAL: the branch assigns no phase (lines 385-403)
TerminalNext(params, los_angle, dist_to_go) == "TERMINAL"

\* the line-of-sight rate against an unset previous angle taken as 0
LosRateUnseeded(prev_los, los_angle) ==
    (los_angle - (IF prev_los = NoLos THEN 0 ELSE prev_los[1])) * 20

\* lines 389-390: if prev_los is None: prev_los = los_angle;
\* los_rate = (los_angle - prev_los) / self.dt, in urad/s
LosRate(prev_los, los_angle) ==
    (los_angle - (IF prev_los = NoLos THEN los_angle ELSE prev_los[1])) * 20

\* lines 394-403: the angle of attack for the acceleration 4.0 * v * los_rate
\* plus the gravity component, by inverse dynamics
TerminalAoa(v, path_angle, los_rate, qw) ==
    AoaFromLift(MulDiv(Clamp(MulDiv(4 * v, los_rate, 1000000), -ACC_SAT, ACC_SAT)
                         + MulDiv(GRAVITY, Cos(path_angle), 10000),
                       MASS, 100),
                qw)

\* lines 344-403: the phase logic of one iteration for the derived variables of
\* lines 331-342 (los_angle is the angle of lines 383 and 388).  Gives the phase
\* after the iteration, the commanded angle of attack, prev_los, and whether the
\* inverse dynamics divided by zero.
PhaseLogic(params, f, v, path_angle, path_angle_deg, los_angle) ==
    LET y          == f.state[2]
        mach       == MulDiv(v, 10000, get_sound_speed(y))
        dist_to_go == f.target_dist_m - f.state[1]
        phase      == EnterPhase(f.phase)
        qw         == WingPressure(y, v)
        keep       == [phase |-> phase, target_aoa |-> 0,
                       prev_los |-> f.prev_los, raised |-> FALSE]
    IN  CASE phase = "BALLISTIC" ->
                [keep EXCEPT !.phase = BallisticNext(f.skip_loft, f.t)]
          [] phase = "LOFT" ->
                LET error     == params.LOFT_ELEV - path_angle_deg
                    accel_cmd == MulDiv(MulDiv(error, params.LOFT_GAIN, 100), GRAVITY, 1000)
                    req_lift  == MulDiv(accel_cmd, MASS, 100)
                IN  IF DensityVanishes(y) THEN [keep EXCEPT !.raised = TRUE]
                    ELSE [keep EXCEPT
                            !.target_aoa = AoaFromLift(req_lift, qw),
                            !.phase = LoftNext(params, path_angle_deg, f.t)]
          [] phase = "GLIDE" ->
                [keep EXCEPT
                    !.target_aoa = Radians(TargetPitch(params, f.mode, mach)) - path_angle,
                    !.phase = GlideNext(params, los_angle, dist_to_go)]
          [] phase = "TERMINAL" ->
                IF DensityVanishes(y)
                THEN [keep EXCEPT !.prev_los = <<los_angle>>, !.raised = TRUE]
                ELSE [keep EXCEPT
                        !.phase = TerminalNext(params, los_angle, dist_to_go),
                        !.prev_los = <<los_angle>>,
                        !.target_aoa = TerminalAoa(v, path_angle,
                                                   LosRate(f.prev_los, los_angle), qw)]

\* lines 333-342: the path angle in degrees and the line of sight, then the phase logic
Heading(params, f, v, path_angle) ==
    PhaseLogic(params, f, v, path_angle, Degrees(path_angle),
               Atan2(-f.state[2], f.target_dist_m - f.state[1]))

\* lines 331-403: the guidance law of one iteration
Guidance(params, f) ==
    Heading(params, f, Hypot(f.state[3], f.state[4]), Atan2(f.state[4], f.state[3]))

\* the angle of attack the selected integrator applies (lines 406-410)
IntegratorAlpha(params, target_aoa) ==
    IF params.SOLVER = "EULER" THEN EulerAlpha(params, target_aoa)
    ELSE AppliedAlpha(params, target_aoa)

\* every profile integrated with RK4
IntegrateRk4Only(params, state, target_aoa) == rk4_step(params, state, target_aoa)

\* lines 406-410: state = self.euler_step(...) or self.rk4_step(...)
Integrate(params, state, target_aoa) ==
    IF params.SOLVER = "EULER" THEN euler_step(params, state, target_aoa)
    ELSE rk4_step(params, state, target_aoa)

\* lines 414-422: alpha = max(min(target_aoa, max_aoa), -max_aoa) of the sample
HistAlpha(params, target_aoa) ==
    Clamp(target_aoa, -params.MAX_AOA, params.MAX_AOA)

\* if int(t / self.dt) % 10 == 0
SampleDue(t) == IntDiv(t, DT) % 10 = 0

\* lines 414-422: the history sample of an iteration (v is the speed of line 332)
Sample(params, f, g, new, t_new) ==
    [ t |-> t_new, x |-> new[1], y |-> new[2],
      v |-> Hypot(f.state[3], f.state[4]),
      phase |-> g.phase, path_angle |-> Atan2(new[4], new[3]),
      alpha |-> HistAlpha(params, g.target_aoa) ]

\* lines 405-422: the locals after the integration step gave new and t became t_new
Advanced(params, f, g, new, t_new) ==
    [f EXCEPT
        !.state     = new,
        !.t         = t_new,
        !.phase     = g.phase,
        !.prev_los  = g.prev_los,
        !.steps     = f.steps + 1,
        !.commanded = g.target_aoa,
        !.applied   = IntegratorAlpha(params, g.target_aoa),
        !.history   = IF SampleDue(t_new)
                      THEN Append(f.history, Sample(params, f, g, new, t_new))
                      ELSE f.history]

\* the iteration after the guidance law gave g
Guided(params, f, g) ==
    IF g.raised
    THEN [f EXCEPT !.phase = g.phase, !.prev_los = g.prev_los, !.raised = TRUE]
    ELSE Advanced(params, f, g, Integrate(params, f.state, g.target_aoa), DblAdd(f.t, DT))

\* one iteration of the while loop (lines 330-422) under self.current_physics = params
LoopBody(params, f) == Guided(params, f, Guidance(params, f))

\* the loop has ended: its condition is false, or an iteration raised
LoopExited(f) == f.raised \/ ~LoopCond(f)

\* the next n >= 1 iterations of the loop, fewer when it ends before
RECURSIVE Iterate(_, _, _)
Iterate(params, f, n) ==
    IF LoopExited(f) THEN f
    ELSE IF n = 1 THEN LoopBody(params, f)
    ELSE Iterate(params, Iterate(params, f, n \div 2), n - n \div 2)

RECURSIVE RunFrom(_, _, _)
RunFrom(params, f, n) ==
    IF LoopExited(f) THEN f ELSE RunFrom(params, Iterate(params, f, n), 2 * n)

\* the loop run to its exit (or to the iteration that raises)
RunLoop(params, f) == RunFrom(params, f, 1)

\* t * time_scale in milliseconds (line 424)
TotalTti(params, t) == MulDiv(TimeMs(t), params.TIME_SCALE, 1000)

\* lines 311-314: the profile run binds to self.current_physics, whatever
\* profile (prior) an earlier call left there
BoundProfile(prior, mode) ==
    IF mode \in DOMAIN PHYSICS_PROFILES THEN PHYSICS_PROFILES[mode]
    ELSE PHYSICS_PROFILES.STANDARD

\* the loop reading the profile an earlier call left bound
LoopProfileStale(prior, mode) == prior

\* the profile the parameters and the loop read from self.current_physics (lines
\* 317-325, 406, 418): the one lines 311-314 have just bound
LoopProfile(prior, mode) == BoundProfile(prior, mode)

\* what a run call hands to its caller: the tuple of line 424, or the exception
RunResult(physics, f) ==
    [ raised  |-> f.raised,
      tti     |-> IF f.raised THEN 0 ELSE TotalTti(physics, f.t),
      x_final |-> IF f.raised THEN 0 ELSE f.state[1],
      history |-> IF f.raised THEN << >> ELSE f.history,
      steps   |-> f.steps,
      args    |-> <<f.launch_alt_m, f.launch_speed_mach, f.target_dist_m>> ]

\* lines 311-424 for the locals f0 of lines 296-309
RunBound(prior, f0) ==
    [ physics |-> BoundProfile(prior, f0.mode),
      result  |-> RunResult(LoopProfile(prior, f0.mode),
                            RunLoop(LoopProfile(prior, f0.mode), f0)) ]

\* run(launch_alt_m, launch_speed_mach, target_dist_m) as one call on a simulator
\* whose current_physics is prior: the profile left bound and the result
run(prior, alt, mach, dist) == RunBound(prior, RunEntry(alt, mach, dist))

(***************************************************************************)
(* State.                                                                  *)
(***************************************************************************)
VARIABLES
    current_physics,   \* GBU62_Simulator.current_physics of the shared simulator
    pc,                \* position of the simulator call: "idle" or "loop"
    frame,             \* locals of the run call in progress
    result,            \* what the run call that just ended gave its caller
    detected,          \* arguments and result of the detect_flight_mode call just made
    bombs,             \* BombTracker.bombs
    bomb_counter,      \* BombTracker.bomb_counter
    log_messages,      \* BombTracker.log_messages
    now,               \* time.time() in milliseconds
    cached_predrop,    \* the HUD's cached pre-drop prediction
    outcome            \* how the last tracker or HUD call ended

\* the simulator call taken step by step, idle while the tracker and the HUD run
callvars == <<pc, frame, result, detected>>

trackvars == <<bombs, bomb_counter, log_messages, now, cached_predrop, outcome>>

vars == <<current_physics, pc, frame, result, detected,
          bombs, bomb_counter, log_messages, now, cached_predrop, outcome>>

\* Launch conditions <<altitude cm, Mach x10^4, target range cm>> given to run:
\* a 20 km release that never comes down within 600 s, low-level releases of
\* every mode, a steep dive, a release at ground level, a target behind the
\* aircraft, an altitude at which the air density is 0.0, and a supersonic
\* steep dive
SimInputs ==
    { <<2000000, 9000, 25000000>>,
      <<100000, 11000, 200000>>,
      <<5000, 9000, 500000>>,
      <<50000, 9000, 500000>>,
      <<5000, 5000, 10000>>,
      <<15000, 5000, 200000>>,
      <<0, 5000, 100000>>,
      <<100000, 8000, -50000>>,
      <<700000000, 5000, 1500000>> }

\* Arguments given to detect_flight_mode on its own: altitudes and ranges on both
\* sides of the two thresholds, on them, and the non-positive ones
DetectAlts == {-10000, 0, 100000, 345000, 500000}

DetectDists == {-100000, 0, 1000000, 1323000, 1323100, 6615000, 6620000}

NoResult == [ raised |-> FALSE, tti |-> 0, x_final |-> 0, history |-> << >>,
              steps |-> 0, args |-> << >> ]

NoDetect == [ args |-> << >>, mode |-> "" ]

IdleFrame == RunEntry(0, 0, 0)

\* None
NONE == << >>

\* How a call ended: the handler, whether an exception left it and which, its
\* arguments, the profile it found bound, the arguments it gave the classifier
\* and run (<< >>: not called), what run gave back, the value returned
NoOutcome == [ op |-> "", raised |-> FALSE, error |-> "", args |-> << >>,
               found |-> "", detect_args |-> << >>, run_args |-> << >>,
               run |-> NoResult, value |-> << >> ]

\* the HUD's cache before any prediction: no text, no mode
NoPrediction == [ text |-> NONE, mode |-> "", run |-> NoResult ]

\* GBU62_Simulator.__init__, BombTracker.__init__ and the HUD before any call
Init ==
    /\ current_physics = PHYSICS_PROFILES.STANDARD
    /\ pc = "idle"
    /\ frame = IdleFrame
    /\ result = NoResult
    /\ detected = NoDetect
    /\ bombs = << >>
    /\ bomb_counter = 0
    /\ log_messages = << >>
    /\ now = 0
    /\ cached_predrop = NoPrediction
    /\ outcome = NoOutcome

\* run is called: lines 296-327
RunCall(alt, mach, dist) ==
    /\ pc = "idle"
    /\ frame' = RunEntry(alt, mach, dist)
    /\ current_physics' = BoundProfile(current_physics, frame'.mode)
    /\ pc' = "loop"
    /\ result' = NoResult
    /\ detected' = NoDetect
    /\ UNCHANGED trackvars

\* one iteration of the loop that completes: lines 329-422
RunStep ==
    /\ pc = "loop"
    /\ LoopCond(frame)
    /\ ~LoopBody(current_physics, frame).raised
    /\ frame' = LoopBody(current_physics, frame)
    /\ UNCHANGED <<current_physics, pc, result, detected>>
    /\ UNCHANGED trackvars

\* an iteration whose inverse dynamics divides by zero: the call ends with
\* ZeroDivisionError
RunRaise ==
    /\ pc = "loop"
    /\ LoopCond(frame)
    /\ LoopBody(current_physics, frame).raised
    /\ result' = RunResult(current_physics, LoopBody(current_physics, frame))
    /\ frame' = IdleFrame
    /\ pc' = "idle"
    /\ UNCHANGED <<current_physics, detected>>
    /\ UNCHANGED trackvars

\* the loop condition is false: return t * time_scale, state[0], history (line 424)
RunReturn ==
    /\ pc = "loop"
    /\ ~LoopCond(frame)
    /\ result' = RunResult(current_physics, frame)
    /\ frame' = IdleFrame
    /\ pc' = "idle"
    /\ UNCHANGED <<current_physics, detected>>
    /\ UNCHANGED trackvars

\* detect_flight_mode is called on its own (lines 115-124)
Detect(alt, mach, dist) ==
    /\ pc = "idle"
    /\ detected' = [ args |-> <<alt, mach, dist>>,
                     mode |-> detect_flight_mode(alt, mach, dist) ]
    /\ result' = NoResult
    /\ UNCHANGED <<current_physics, pc, frame>>
    /\ UNCHANGED trackvars

\* the simulator alone, its loop taken one iteration at a time
NextSim ==
    \/ \E i \in SimInputs : RunCall(i[1], i[2], i[3])
    \/ RunStep
    \/ RunRaise
    \/ RunReturn
    \/ \E a \in DetectAlts, d \in DetectDists : Detect(a, 8000, d)

SpecSim == Init /\ [][NextSim]_vars

(***************************************************************************)
(* Properties of the simulator (checked under SpecSim).                    *)
(***************************************************************************)
\* the step ceiling: 600 s of dt = 0.05 s
MAX_STEPS == 12000

\* C1: every run call ends: each iteration advances the elapsed time by dt, the
\* loop never starts an iteration after 12000 completed ones, and when its
\* condition is false the altitude is <= 0 or the elapsed time has reached 600 s,
\* also for a trajectory that never descends.
C1_RunTerminates ==
    pc = "loop" =>
        /\ TimeMs(frame.t) = frame.steps * TimeMs(DT)
        /\ frame.steps <= MAX_STEPS
        /\ (LoopCond(frame) => frame.steps < MAX_STEPS)
        /\ (~LoopCond(frame) => frame.state[2] <= 0 \/ DblGe(frame.t, T_CEILING))

\* the run from 20 km that is still airborne when the ceiling ends it
C1_Witness ==
    /\ pc = "loop"
    /\ ~LoopCond(frame)
    /\ frame.state[2] > 0
    /\ frame.steps = MAX_STEPS

\* position of a phase in RELEASE -> BALLISTIC -> (LOFT) -> GLIDE -> TERMINAL
PhaseRank(phase) ==
    CASE phase = "RELEASE"   -> 0
      [] phase = "BALLISTIC" -> 1
      [] phase = "LOFT"      -> 2
      [] phase = "GLIDE"     -> 3
      [] phase = "TERMINAL"  -> 4

\* C2: within one run an iteration never moves the phase backwards, so no phase
\* is re-entered once left, and TERMINAL stays active on every later iteration.
C2_PhaseForward ==
    [][ (pc = "loop" /\ pc' = "loop" /\ frame'.steps = frame.steps + 1) =>
            /\ PhaseRank(frame'.phase) >= PhaseRank(frame.phase)
            /\ (frame.phase = "TERMINAL" => frame'.phase = "TERMINAL") ]_vars

\* a run that flew all of BALLISTIC, LOFT, GLIDE and is now in TERMINAL for
\* more than one iteration
C2_Witness ==
    /\ pc = "loop"
    /\ frame.phase = "TERMINAL"
    /\ frame.prev_los # NoLos
    /\ \E i, j \in 1..Len(frame.history) :
          frame.history[i].phase = "LOFT" /\ frame.history[j].phase = "GLIDE"

\* C3: the angle of attack the integrator applied on the last iteration and the
\* one stored in the newest history sample are within [-MAX_AOA, +MAX_AOA] of the
\* profile bound to the run, whatever was commanded.
C3_AoaWithinProfile ==
    pc = "loop" =>
        /\ Abs(frame.applied) <= current_physics.MAX_AOA
        /\ (frame.history # << >> =>
              Abs(frame.history[Len(frame.history)].alpha) <= current_physics.MAX_AOA)

\* an iteration that commanded more than MAX_AOA, applied exactly MAX_AOA and
\* stored it in a sample
C3_Witness ==
    /\ pc = "loop"
    /\ Abs(frame.commanded) > current_physics.MAX_AOA
    /\ Abs(frame.applied) = current_physics.MAX_AOA
    /\ frame.history # << >>
    /\ frame.history[Len(frame.history)].t = frame.t
    /\ Abs(frame.history[Len(frame.history)].alpha) = current_physics.MAX_AOA

\* the classification as stated: STEEP_DIVE below -19.04 degrees of line of sight,
\* else MAX_RANGE when range / altitude (999 for altitude <= 0) exceeds 13.23,
\* else STANDARD
StatedMode(alt, dist) ==
    IF Degrees(Atan2(-alt, dist)) < STEEP_DIVE_LOS THEN "STEEP_DIVE"
    ELSE IF alt <= 0 \/ dist > (alt \div 100) * 1323 + ((alt % 100) * 1323) \div 100
         THEN "MAX_RANGE"
    ELSE "STANDARD"

\* C5: detect_flight_mode returns the one mode the stated first-match rule gives,
\* a key of the profile table, and the same mode the run bound for these arguments.
C5_Classifier ==
    /\ detected # NoDetect =>
          /\ detected.mode = StatedMode(detected.args[1], detected.args[3])
          /\ detected.mode \in DOMAIN PHYSICS_PROFILES
          /\ detected.mode =
                detect_flight_mode(detected.args[1], detected.args[2], detected.args[3])
    /\ pc = "loop" =>
          /\ frame.mode = StatedMode(frame.launch_alt_m, frame.target_dist_m)
          /\ current_physics = PHYSICS_PROFILES[frame.mode]

\* a classification at altitude <= 0, where the glide ratio is taken as 999
C5_Witness ==
    /\ detected # NoDetect
    /\ detected.args[1] <= 0
    /\ detected.mode = "MAX_RANGE"

(***************************************************************************)
(* BombTracker and the HUD handlers that call it.  A run made from here is *)
(* the whole call (operator run).                                          *)
(***************************************************************************)
\* the fallback range 15000.0 m (cm), the grace 5.0 s (ms), the log capacity
FALLBACK_DIST == 1500000

GRACE_MS == 5000

LOG_CAP == 20

\* Bound on the number of add_bomb calls, the clock step and the clock's end
MaxAdds == 2

TICK_MS == 4000

MaxNow == 8000

\* the target range passed on as given, None included
TargetKept(target_distance) == target_distance

\* dist = target_distance if target_distance else 15000.0 (line 447): None and 0
\* are falsy, every other number is kept
TargetOrFallback(target_distance) ==
    IF target_distance = NONE \/ target_distance = <<0>> THEN <<FALLBACK_DIST>>
    ELSE target_distance

\* mach = (speed_tas / 3.6) / sos: km/h and cm/s to Mach x10^4 (line 446)
MachOf(speed_tas, sos) == MulDiv(RoundDiv(speed_tas * 1000, 36), 10000, sos)

\* a log that refuses the new line when it is full
LogAppendDropsNewest(log, message) ==
    IF Len(log) >= LOG_CAP THEN log
    ELSE Append(log, [ts |-> now \div 1000, message |-> message])

\* BombTracker.log up to the print: append, drop the oldest beyond 20 entries
LogAppend(log, message) ==
    LET appended == Append(log, [ts |-> now \div 1000, message |-> message])
    IN  IF Len(appended) > LOG_CAP THEN Tail(appended) ELSE appended

\* Calls of add_bomb: <<altitude cm, speed km/h, pitch deg, target range cm,
\* failing print>>.  NONE stands for a value that is no number (a JSON null of
\* the telemetry), the last component for the log call whose print raises (0: none).
AddInputs ==
    { << <<500>>, <<367>>, 0, NONE, 0 >>,
      << <<500>>, <<367>>, 0, <<0>>, 0 >>,
      << <<1000>>, <<612>>, 0, <<10000>>, 0 >>,
      << <<5000>>, <<612>>, 0, <<10000>>, 0 >>,
      << <<5000>>, <<612>>, 0, <<-50000>>, 0 >>,
      << NONE, <<367>>, 0, NONE, 0 >>,
      << <<500>>, NONE, 0, NONE, 0 >>,
      << <<700000000>>, <<612>>, 0, NONE, 0 >>,
      << <<500>>, <<367>>, 0, NONE, 1 >>,
      << <<500>>, <<367>>, 0, NONE, 2 >>,
      << <<500>>, <<367>>, 0, NONE, 3 >> }

\* HUD telemetry <<altitude cm, speed km/h, target range cm or NONE>> at a
\* prediction or a release
HudInputs ==
    { << 500, 367, NONE >>,
      << 500, 367, <<1500000>> >>,
      << 700000000, 612, <<1500000>> >> }

\* on_bomb_release: if target_dist_m is None: target_dist_m = 15000.0
\* (gbu_hud.py lines 83-85)
HudTargetOrFallback(target_dist_m) ==
    IF target_dist_m = NONE THEN <<FALLBACK_DIST>> ELSE target_dist_m

\* the arguments add_bomb gives to detect_flight_mode and run (lines 445-447)
AddArgs(altitude, speed_tas, target_distance) ==
    <<altitude, MachOf(speed_tas, get_sound_speed(altitude)),
      TargetOrFallback(target_distance)[1]>>

\* the arguments update_physics gives to run (gbu_hud.py lines 33-37)
PredictArgs(altitude, speed_tas, dist_m) ==
    <<altitude, MachOf(speed_tas, get_sound_speed(altitude)), dist_m>>

\* releases at and below ground level
GroundInputs ==
    { << <<0>>, <<367>>, 0, NONE, 0 >>,
      << <<-500>>, <<367>>, 0, NONE, 0 >> }

\* the arguments run receives from the inputs above
RunArgs ==
    { AddArgs(i[1][1], i[2][1], i[4]) :
        i \in {j \in AddInputs :
                 j[1] # NONE /\ j[2] # NONE /\ TargetOrFallback(j[4]) # NONE} }
    \cup
    { AddArgs(i[1], i[2], HudTargetOrFallback(i[3])) :
        i \in {j \in HudInputs : TargetOrFallback(HudTargetOrFallback(j[3])) # NONE} }
    \cup
    { PredictArgs(i[1], i[2], i[3][1]) : i \in {j \in HudInputs : j[3] # NONE} }
    \cup
    { AddArgs(i[1][1], i[2][1], i[4]) : i \in GroundInputs }

\* run tabulated over the profiles a call can find bound and the arguments above
RunTable ==
    [ prior \in {PHYSICS_PROFILES[m] : m \in DOMAIN PHYSICS_PROFILES}, a \in RunArgs |->
        run(prior, a[1], a[2], a[3]) ]

\* the impact time without the flight time
ImpactTimeAtRelease(release_time, t_impact) == release_time

\* 'impact_time': now + t_impact (line 462)
ImpactTime(release_time, t_impact) == release_time + t_impact

\* the key of PHYSICS_PROFILES a bound profile was taken from
ProfileName(physics) == CHOOSE m \in DOMAIN PHYSICS_PROFILES : PHYSICS_PROFILES[m] = physics

\* the tracker before a call of add_bomb, as the call's outcome starts out
AddStart(altitude, speed_tas, pitch_deg, target_distance, stdout_fails_at) ==
    [ bombs |-> bombs, log_messages |-> log_messages,
      current_physics |-> current_physics,
      outcome |-> [NoOutcome EXCEPT
                     !.op = "add_bomb",
                     !.args = <<altitude, speed_tas, pitch_deg,
                                target_distance, stdout_fails_at>>] ]

\* the call ends with an exception
Raise(st, error) == [st EXCEPT !.outcome.raised = TRUE, !.outcome.error = error]

\* a record whose id is its position in the list
BombRecordIdByLength(altitude, speed_tas, pitch_deg, args, mode, r) ==
    [ id           |-> Len(bombs) + 1,
      release_time |-> now,
      total_tti    |-> r.result.tti,
      impact_time  |-> ImpactTime(now, r.result.tti),
      telem        |-> [ alt |-> altitude[1], tas |-> speed_tas[1],
                         pitch |-> pitch_deg, dist |-> args[3] ],
      history      |-> r.result.history,
      mode         |-> mode,
      label        |-> <<"GBU", bomb_counter + 1>> ]

\* lines 457-467: the record of a release
BombRecord(altitude, speed_tas, pitch_deg, args, mode, r) ==
    [ id           |-> bomb_counter + 1,
      release_time |-> now,
      total_tti    |-> r.result.tti,
      impact_time  |-> ImpactTime(now, r.result.tti),
      telem        |-> [ alt |-> altitude[1], tas |-> speed_tas[1],
                         pitch |-> pitch_deg, dist |-> args[3] ],
      history      |-> r.result.history,
      mode         |-> mode,
      label        |-> <<"GBU", bomb_counter + 1>> ]

\* lines 455-469: after run gave r (st: the tracker after the two log calls)
AddSimulated(st, bomb, r, stdout_fails_at) ==
    IF r.result.raised THEN Raise(st, "ZeroDivisionError")
    ELSE IF stdout_fails_at = 3
    THEN Raise([st EXCEPT !.bombs = Append(bombs, bomb),
                          !.log_messages = LogAppend(st.log_messages,
                                                     <<"RELEASED", r.result.tti>>)],
               "OSError")
    ELSE [st EXCEPT !.bombs = Append(bombs, bomb),
                    !.log_messages = LogAppend(st.log_messages,
                                               <<"RELEASED", r.result.tti>>)]

\* lines 452-469: the two log calls, the run and the record (st: the tracker
\* after the classification, log1 and log2: the log after each log call)
AddLogged(st, altitude, speed_tas, pitch_deg, args, mode, log1, log2, r, stdout_fails_at) ==
    IF stdout_fails_at = 1
    THEN Raise([st EXCEPT !.log_messages = log1], "OSError")
    ELSE IF stdout_fails_at = 2
    THEN Raise([st EXCEPT !.log_messages = log2], "OSError")
    ELSE AddSimulated([st EXCEPT !.log_messages = log2,
                                 !.current_physics = r.physics,
                                 !.outcome.found = ProfileName(current_physics),
                                 !.outcome.run_args = args,
                                 !.outcome.run = r.result],
                      BombRecord(altitude, speed_tas, pitch_deg, args, mode, r),
                      r, stdout_fails_at)

\* lines 450-469 for the classified mode
AddClassified(st, altitude, speed_tas, pitch_deg, args, mode, log1, stdout_fails_at) ==
    AddLogged([st EXCEPT !.outcome.detect_args = args],
              altitude, speed_tas, pitch_deg, args, mode, log1,
              LogAppend(log1, <<"DIST", args[3]>>),
              RunTable[current_physics, args], stdout_fails_at)

\* lines 445-469 for the arguments of the classifier and of run
AddComputed(st, altitude, speed_tas, pitch_deg, args, mode, stdout_fails_at) ==
    AddClassified(st, altitude, speed_tas, pitch_deg, args, mode,
                  LogAppend(log_messages, <<"DROP", args[1], args[2], mode>>),
                  stdout_fails_at)

\* lines 445-469 for the sound speed, Mach number and range of lines 445-447
AddFrom(st, altitude, speed_tas, pitch_deg, args, stdout_fails_at) ==
    AddComputed(st, altitude, speed_tas, pitch_deg, args,
                detect_flight_mode(args[1], args[2], args[3]), stdout_fails_at)

\* BombTracker.add_bomb (lines 441-469) as one call: the tracker and simulator
\* fields after it and how it ended.  stdout_fails_at = k > 0: the print of the
\* k-th log call raises OSError (the message is already in log_messages).
\* The parameter ground_speed of the source is not read by the body.
add_bomb(altitude, speed_tas, pitch_deg, target_distance, stdout_fails_at) ==
    IF altitude = NONE \/ speed_tas = NONE \/ TargetOrFallback(target_distance) = NONE
    THEN Raise(AddStart(altitude, speed_tas, pitch_deg, target_distance,
                        stdout_fails_at), "TypeError")
    ELSE AddFrom(AddStart(altitude, speed_tas, pitch_deg, target_distance,
                          stdout_fails_at),
                 altitude, speed_tas, pitch_deg,
                 AddArgs(altitude[1], speed_tas[1], target_distance), stdout_fails_at)

\* the tracker and simulator fields as a call of add_bomb left them
Left(after) ==
    /\ bombs' = after.bombs
    /\ log_messages' = after.log_messages
    /\ current_physics' = after.current_physics

\* a call of BombTracker.add_bomb
AddBomb(altitude, speed_tas, pitch_deg, target_distance, stdout_fails_at) ==
    /\ pc = "idle"
    /\ bomb_counter < MaxAdds
    /\ bomb_counter' = bomb_counter + 1
    /\ \E after \in {add_bomb(altitude, speed_tas, pitch_deg, target_distance,
                              stdout_fails_at)} :
            Left(after) /\ outcome' = after.outcome
    /\ UNCHANGED <<now, cached_predrop>>
    /\ UNCHANGED callvars

\* GbuHudMixin.on_bomb_release (gbu_hud.py lines 79-94): nothing when the timers
\* are hidden, else add_bomb with the HUD's telemetry; no exception is handled
OnBombRelease(show_gbu_timers, altitude, speed_tas, target_dist_m, stdout_fails_at) ==
    /\ pc = "idle"
    /\ bomb_counter < MaxAdds
    /\ IF show_gbu_timers
       THEN /\ bomb_counter' = bomb_counter + 1
            /\ \E after \in {add_bomb(<<altitude>>, <<speed_tas>>, 0,
                                      HudTargetOrFallback(target_dist_m),
                                      stdout_fails_at)} :
                    /\ Left(after)
                    /\ outcome' = [after.outcome EXCEPT !.op = "on_bomb_release"]
       ELSE /\ outcome' = [NoOutcome EXCEPT !.op = "on_bomb_release"]
            /\ UNCHANGED <<bomb_counter, bombs, log_messages, current_physics>>
    /\ UNCHANGED <<now, cached_predrop>>
    /\ UNCHANGED callvars

\* GbuHudMixin.update_physics (gbu_hud.py lines 23-49): the pre-drop prediction.
\* Any exception of the run is caught and shown as "ERR".
UpdatePhysics(show_gbu_timers, altitude, speed_tas, dist_m) ==
    /\ pc = "idle"
    /\ IF ~show_gbu_timers \/ dist_m = NONE \/ dist_m = <<0>>
       THEN /\ cached_predrop' = [cached_predrop EXCEPT !.text = NONE,
                                                        !.run = NoResult]
            /\ outcome' = [NoOutcome EXCEPT !.op = "update_physics"]
            /\ UNCHANGED current_physics
       ELSE \E args \in {PredictArgs(altitude, speed_tas, dist_m[1])} :
            \E r \in {RunTable[current_physics, args]} :
            \E mode \in {detect_flight_mode(args[1], args[2], args[3])} :
                /\ current_physics' = r.physics
                /\ outcome' = [NoOutcome EXCEPT
                                 !.op = "update_physics",
                                 !.run_args = args, !.run = r.result,
                                 !.found = ProfileName(current_physics),
                                 !.detect_args =
                                     IF r.result.raised THEN << >> ELSE args]
                /\ cached_predrop' =
                     IF r.result.raised
                     THEN [cached_predrop EXCEPT !.text = <<"ERR">>, !.run = NoResult]
                     ELSE [ text |-> <<mode, r.result.tti>>, mode |-> mode,
                            run |-> r.result ]
    /\ UNCHANGED <<bombs, bomb_counter, log_messages, now>>
    /\ UNCHANGED callvars

\* a record kept until its impact only
LiveUntilImpact(b, t) == t < b.impact_time

\* a record kept at the very end of its grace period
LiveAtGraceEnd(b, t) == t <= b.impact_time + GRACE_MS

\* the condition of line 474: now < b['impact_time'] + 5.0
Live(b, t) == t < b.impact_time + GRACE_MS

\* a pruning that drops the oldest record at every call
DropOldest(bs, t) == IF bs = << >> THEN bs ELSE Tail(bs)

\* the list comprehension of line 474
Pruned(bs, t) == SelectSeq(bs, LAMBDA b : Live(b, t))

\* BombTracker.update (lines 471-474): keep the records with now < impact + 5.0
Update ==
    /\ pc = "idle"
    /\ bombs' = Pruned(bombs, now)
    /\ outcome' = [NoOutcome EXCEPT !.op = "update"]
    /\ UNCHANGED <<bomb_counter, log_messages, now, cached_predrop, current_physics>>
    /\ UNCHANGED callvars

\* an entry that is still FLYING at the instant of impact
ActiveEntryFlyingAtZero(b) ==
    [ id        |-> b.id,
      remaining |-> b.impact_time - now,
      status    |-> IF b.impact_time - now >= 0 THEN "FLYING" ELSE "IMPACT",
      label     |-> b.label,
      mode      |-> b.mode,
      total_tti |-> b.total_tti ]

\* one entry of get_active_bombs (lines 480-490)
ActiveEntry(b) ==
    [ id        |-> b.id,
      remaining |-> b.impact_time - now,
      status    |-> IF b.impact_time - now > 0 THEN "FLYING" ELSE "IMPACT",
      label     |-> b.label,
      mode      |-> b.mode,
      total_tti |-> b.total_tti ]

\* a query that also prunes the records it finds expired
GetActiveBombsPruning ==
    /\ pc = "idle"
    /\ bombs' = Pruned(bombs, now)
    /\ outcome' = [NoOutcome EXCEPT !.op = "get_active_bombs",
                                    !.value = [i \in 1..Len(bombs') |-> ActiveEntry(bombs'[i])]]
    /\ UNCHANGED <<bomb_counter, log_messages, now, cached_predrop, current_physics>>
    /\ UNCHANGED callvars

\* BombTracker.get_active_bombs (lines 476-491)
GetActiveBombs ==
    /\ pc = "idle"
    /\ outcome' = [NoOutcome EXCEPT !.op = "get_active_bombs",
                                    !.value = [i \in 1..Len(bombs) |-> ActiveEntry(bombs[i])]]
    /\ UNCHANGED <<bombs, bomb_counter, log_messages, now, cached_predrop,
                   current_physics>>
    /\ UNCHANGED callvars

\* BombTracker.get_logs (lines 493-494)
GetLogs ==
    /\ pc = "idle"
    /\ outcome' = [NoOutcome EXCEPT !.op = "get_logs", !.value = log_messages]
    /\ UNCHANGED <<bombs, bomb_counter, log_messages, now, cached_predrop,
                   current_physics>>
    /\ UNCHANGED callvars

\* wall-clock time passes between calls
Tick ==
    /\ pc = "idle"
    /\ now + TICK_MS <= MaxNow
    /\ now' = now + TICK_MS
    /\ UNCHANGED <<bombs, bomb_counter, log_messages, cached_predrop, outcome,
                   current_physics>>
    /\ UNCHANGED callvars

\* BombTracker.log (lines 433-439) called on its own: the stamped line is
\* appended, the oldest dropped beyond 20, then the print, which may raise
Log(message, stdout_fails) ==
    /\ pc = "idle"
    /\ log_messages' = LogAppend(log_messages, message)
    /\ outcome' = [NoOutcome EXCEPT !.op = "log", !.args = <<message>>,
                                    !.raised = stdout_fails,
                                    !.error = IF stdout_fails THEN "OSError" ELSE ""]
    /\ UNCHANGED <<bombs, bomb_counter, now, cached_predrop, current_physics>>
    /\ UNCHANGED callvars

\* the instants at which a stored record changes its status or becomes prunable
EventTimes ==
    UNION { {bombs[i].impact_time, bombs[i].impact_time + GRACE_MS} : i \in 1..Len(bombs) }

\* wall-clock time passes up to the next such instant
Due ==
    /\ pc = "idle"
    /\ \E t \in EventTimes :
          /\ now < t
          /\ \A u \in EventTimes : now < u => t <= u
          /\ now' = t
    /\ UNCHANGED <<bombs, bomb_counter, log_messages, cached_predrop, outcome,
                   current_physics>>
    /\ UNCHANGED callvars

\* the tracker and the HUD on the shared simulator
Next ==
    \/ \E i \in AddInputs : AddBomb(i[1], i[2], i[3], i[4], i[5])
    \/ \E i \in HudInputs, show \in BOOLEAN : OnBombRelease(show, i[1], i[2], i[3], 0)
    \/ \E i \in HudInputs, show \in BOOLEAN : UpdatePhysics(show, i[1], i[2], i[3])
    \/ Update
    \/ GetActiveBombs
    \/ GetLogs
    \/ Tick

Spec == Init /\ [][Next]_vars

\* Releases whose records live through the clock's range: a short and a longer
\* flight, and the releases at and below ground level
LifeInputs ==
    { << <<500>>, <<367>>, 0, NONE, 0 >>,
      << <<5000>>, <<612>>, 0, <<10000>>, 0 >> } \cup GroundInputs

\* the tracker alone, polled and pruned while the clock passes the impact and
\* the end of the grace period of its records
NextLife ==
    \/ \E i \in LifeInputs : AddBomb(i[1], i[2], i[3], i[4], i[5])
    \/ Update
    \/ GetActiveBombs
    \/ Tick
    \/ Due

SpecLife == Init /\ [][NextLife]_vars

\* the release and the message recorded in the log
LogInputs == { << <<500>>, <<367>>, 0, NONE, 0 >> }

LogMessages == { <<"NOTE">> }

\* the tracker's rolling log, filled by log and add_bomb and read by get_logs
NextLog ==
    \/ \E i \in LogInputs : AddBomb(i[1], i[2], i[3], i[4], i[5])
    \/ \E m \in LogMessages, fails \in BOOLEAN : Log(m, fails)
    \/ GetLogs
    \/ Tick

SpecLog == Init /\ [][NextLog]_vars

(***************************************************************************)
(* Properties of the tracker and the HUD (checked under Spec).             *)
(***************************************************************************)
\* the step is a call of add_bomb (directly or from on_bomb_release)
AddStep == bomb_counter' = bomb_counter + 1

\* the arguments of run for a stored record
BombArgs(b) == AddArgs(b.telem.alt, b.telem.tas, <<b.telem.dist>>)

\* C4: runs with the same altitude, Mach and range give the same flight time,
\* terminal distance and history, whatever profile earlier runs left bound: the
\* run just made agrees with the cached prediction for the same arguments, and
\* stored records with the same arguments agree with it and with each other.
C4_Deterministic ==
    /\ (outcome.run_args # << >> /\ cached_predrop.run # NoResult
          /\ outcome.run_args = cached_predrop.run.args) =>
              /\ ~outcome.run.raised
              /\ outcome.run.tti = cached_predrop.run.tti
              /\ outcome.run.x_final = cached_predrop.run.x_final
              /\ outcome.run.history = cached_predrop.run.history
    /\ \A i \in 1..Len(bombs) :
          /\ cached_predrop.run # NoResult /\ BombArgs(bombs[i]) = cached_predrop.run.args =>
                /\ bombs[i].total_tti = cached_predrop.run.tti
                /\ bombs[i].history = cached_predrop.run.history
          /\ \A j \in 1..Len(bombs) :
                BombArgs(bombs[i]) = BombArgs(bombs[j]) =>
                    /\ bombs[i].total_tti = bombs[j].total_tti
                    /\ bombs[i].history = bombs[j].history
                    /\ bombs[i].mode = bombs[j].mode

\* a release that found the STEEP_DIVE profile of an earlier release bound, for
\* the arguments of a MAX_RANGE prediction made before that
C4_Witness ==
    /\ outcome.op = "add_bomb"
    /\ ~outcome.raised
    /\ cached_predrop.run # NoResult
    /\ outcome.run_args = cached_predrop.run.args
    /\ outcome.found = "STEEP_DIVE"
    /\ current_physics = PHYSICS_PROFILES.MAX_RANGE
    /\ Len(bombs) = 2

\* C6: an add_bomb that returns normally appends exactly one record at the end,
\* with impact_time = release_time + total_tti, total_tti the flight time run
\* returned and id the counter; the records stored before are unchanged.
C6_AddAppendsOne ==
    [][ (AddStep /\ ~outcome'.raised) =>
            /\ Len(bombs') = Len(bombs) + 1
            /\ SubSeq(bombs', 1, Len(bombs)) = bombs
            /\ bombs'[Len(bombs')].total_tti = outcome'.run.tti
            /\ bombs'[Len(bombs')].impact_time =
                  bombs'[Len(bombs')].release_time + bombs'[Len(bombs')].total_tti
            /\ bombs'[Len(bombs')].release_time = now
            /\ bombs'[Len(bombs')].id = bomb_counter' ]_vars

\* a second record appended behind a first, released after the clock has moved
C6_Witness ==
    /\ outcome.op = "add_bomb"
    /\ ~outcome.raised
    /\ Len(bombs) = 2
    /\ bombs[2].id = 2
    /\ bombs[2].release_time > bombs[1].release_time
    /\ bombs[2].total_tti > 0

\* the call has numbers for altitude and speed, an altitude with air, a working
\* stdout
SoundCall(args) ==
    /\ args[1] # NONE
    /\ args[2] # NONE
    /\ ~DensityVanishes(args[1][1])
    /\ args[5] = 0

\* C7: add_bomb with target_distance None (telemetry and stdout in order) gives
\* the classifier and run the fallback range 15000 m and does not raise, and the
\* get_active_bombs call that follows returns the new record.
C7_NoneUsesFallback ==
    [][ /\ (AddStep /\ outcome'.op = "add_bomb" /\ outcome'.args[4] = NONE
              /\ SoundCall(outcome'.args)) =>
                /\ ~outcome'.raised
                /\ outcome'.detect_args[3] = FALLBACK_DIST
                /\ outcome'.run_args[3] = FALLBACK_DIST
                /\ bombs'[Len(bombs')].telem.dist = FALLBACK_DIST
        /\ (outcome.op = "add_bomb" /\ outcome.args[4] = NONE /\ ~outcome.raised
              /\ outcome'.op = "get_active_bombs") =>
                \E i \in 1..Len(outcome'.value) :
                    /\ outcome'.value[i].id = bomb_counter
                    /\ outcome'.value[i].total_tti = outcome.run.tti ]_vars

\* a release with target_distance None that was simulated against 15000 m and
\* stored
C7_Witness ==
    /\ outcome.op = "add_bomb"
    /\ outcome.args[4] = NONE
    /\ ~outcome.raised
    /\ outcome.run_args[3] = FALLBACK_DIST
    /\ bombs # << >>
    /\ bombs[Len(bombs)].id = bomb_counter
    /\ bombs[Len(bombs)].telem.dist = FALLBACK_DIST

\* C8 (as claimed): for a target_distance that is zero or negative the classifier
\* and run receive a range > 0 and the stored telemetry records the fallback.
C8_NonPositiveReplaced ==
    (outcome.op = "add_bomb" /\ outcome.args[4] # NONE /\ outcome.args[4][1] <= 0) =>
        /\ (outcome.detect_args # << >> => outcome.detect_args[3] = FALLBACK_DIST)
        /\ (outcome.run_args # << >> => outcome.run_args[3] = FALLBACK_DIST)
        /\ (~outcome.raised => bombs[Len(bombs)].telem.dist = FALLBACK_DIST)

\* C9 (as claimed): an add_bomb that raises leaves the record list as it was.
C9_FailedAddKeepsList ==
    [][ (AddStep /\ outcome'.raised) => bombs' = bombs ]_vars

\* C10 (as claimed): add_bomb returns normally whatever happens inside it, the
\* failure is in the rolling log and nothing is stored.
C10_AddNeverRaises ==
    [][ AddStep => ~outcome'.raised ]_vars

(***************************************************************************)
(* Properties of the records' life (checked under SpecLife).               *)
(***************************************************************************)
\* the step is a call of update
UpdateStep == outcome'.op = "update" /\ now' = now

\* the positions of the records that are less than 5 s past their impact
LivePositions == {i \in 1..Len(bombs) : now < bombs[i].impact_time + 5000}

\* the k-th of these positions in storage order
LivePosition(k) ==
    CHOOSE i \in LivePositions : Cardinality({j \in LivePositions : j <= i}) = k

\* C11: after update() at time T the stored records are exactly the previous
\* records with T < impact_time + 5 s, in their previous order and with
\* unchanged fields; the records with impact_time + 5 s <= T are removed and
\* no other
C11_UpdateKeepsLive ==
    [][UpdateStep =>
          /\ Len(bombs') = Cardinality(LivePositions)
          /\ \A k \in 1..Len(bombs') : bombs'[k] = bombs[LivePosition(k)]]_vars

\* an update at the end of the first record's grace period removed it and kept
\* the second, which is past its impact
C11_Witness ==
    /\ outcome.op = "update"
    /\ bomb_counter = 2
    /\ Len(bombs) = 1
    /\ bombs[1].id = 2
    /\ now >= bombs[1].impact_time

\* C12: update() never increases the number of records, and a second update()
\* at the same clock value leaves the list as the first one left it
C12_UpdateIdempotent ==
    [][UpdateStep =>
          /\ Len(bombs') <= Len(bombs)
          /\ Pruned(bombs', now') = bombs']_vars

\* an update removed the first record and kept the second, still in flight
C12_Witness ==
    /\ outcome.op = "update"
    /\ bomb_counter = 2
    /\ Len(bombs) = 1
    /\ bombs[1].id = 2
    /\ now < bombs[1].impact_time

\* C13: get_active_bombs never returns a record whose impact_time + 5 s lies in
\* the past (an entry with remaining <= -5 s), whatever the interleaving of
\* add_bomb, update, get_active_bombs and the clock
C13_NoStaleEntry ==
    outcome.op = "get_active_bombs" =>
        \A i \in 1..Len(outcome.value) : outcome.value[i].remaining > -5000

\* the step is a call of get_active_bombs
QueryStep == outcome'.op = "get_active_bombs" /\ now' = now

\* C14: get_active_bombs leaves the record list, the records' fields, the id
\* counter and the rolling log as they were; the record list changes only by
\* add_bomb, which inserts one record at the end, and by update, which removes
\* records (checked under Spec, with the HUD's handlers)
C14_QueryHasNoEffect ==
    [][/\ QueryStep => UNCHANGED <<bombs, bomb_counter, log_messages>>
       /\ bombs' # bombs =>
             \/ /\ AddStep
                /\ Len(bombs') = Len(bombs) + 1
                /\ SubSeq(bombs', 1, Len(bombs)) = bombs
             \/ /\ UpdateStep
                /\ Len(bombs') < Len(bombs)]_vars

\* a query answered with one record past its impact and one in flight, both
\* still stored
C14_Witness ==
    /\ outcome.op = "get_active_bombs"
    /\ Len(bombs) = 2
    /\ Len(outcome.value) = 2
    /\ outcome.value[1].status = "IMPACT"
    /\ outcome.value[2].status = "FLYING"
    /\ log_messages # << >>

\* C15: get_active_bombs at time T returns one entry per stored record, in
\* storage order, with remaining = impact_time - T, status FLYING exactly when
\* remaining > 0 and IMPACT otherwise (remaining = 0 is IMPACT), and the id,
\* mode and total_tti of the record
C15_QueryEntries ==
    [][QueryStep =>
          /\ Len(outcome'.value) = Len(bombs)
          /\ \A i \in 1..Len(bombs) :
                /\ outcome'.value[i].id = bombs[i].id
                /\ outcome'.value[i].remaining = bombs[i].impact_time - now
                /\ outcome'.value[i].status = "FLYING" <=> now < bombs[i].impact_time
                /\ outcome'.value[i].status = "IMPACT" <=> now >= bombs[i].impact_time
                /\ outcome'.value[i].mode = bombs[i].mode
                /\ outcome'.value[i].total_tti = bombs[i].total_tti]_vars

\* a query at the instant of the first record's impact, the second in flight
C15_Witness ==
    /\ outcome.op = "get_active_bombs"
    /\ Len(outcome.value) = 2
    /\ outcome.value[1].remaining = 0
    /\ outcome.value[1].status = "IMPACT"
    /\ outcome.value[2].remaining > 0
    /\ outcome.value[2].status = "FLYING"
    /\ outcome.value[1].mode # outcome.value[2].mode

\* the ids of the stored records, and the stored record of an id
StoredIds == {bombs[i].id : i \in 1..Len(bombs)}

RecordOf(id) == bombs[CHOOSE i \in 1..Len(bombs) : bombs[i].id = id]

\* where the record of an id is in its life, as a query would show it:
\* 0 not released, 1 FLYING, 2 IMPACT, 3 removed
Stage(id) ==
    IF id \in StoredIds
    THEN IF ActiveEntry(RecordOf(id)).status = "FLYING" THEN 1 ELSE 2
    ELSE IF id <= bomb_counter THEN 3 ELSE 0

\* C16: a record goes from FLYING to IMPACT to removed and never back; the
\* remaining time a query shows for it strictly decreases when the clock
\* advances; update() removes no record that is FLYING or less than 5 s past its
\* impact, and removes every record whose impact_time + 5 s the clock has reached
C16_RecordLife ==
    [][\A id \in 1..bomb_counter' :
          /\ Stage(id)' >= Stage(id)
          /\ (id \in StoredIds /\ id \in StoredIds' /\ now' > now) =>
                ActiveEntry(RecordOf(id))'.remaining < ActiveEntry(RecordOf(id)).remaining
          /\ (id \in StoredIds /\ id \notin StoredIds') =>
                /\ UpdateStep
                /\ Stage(id) = 2
                /\ now >= RecordOf(id).impact_time + 5000
          /\ (id \in StoredIds /\ UpdateStep /\ now >= RecordOf(id).impact_time + 5000) =>
                id \notin StoredIds']_vars

\* both records went through their whole life: the last update found the list
\* empty or emptied it
C16_Witness ==
    /\ outcome.op = "update"
    /\ bomb_counter = 2
    /\ bombs = << >>

\* C18: the ids of the stored records are pairwise distinct and strictly
\* increasing in storage order, every stored id is at most bomb_counter,
\* bomb_counter never decreases, and an id once issued is never given to a
\* later record, pruned or not
C18_IdsUnique ==
    [][/\ \A i, j \in 1..Len(bombs') : i < j => bombs'[i].id < bombs'[j].id
       /\ \A i \in 1..Len(bombs') : bombs'[i].id >= 1 /\ bombs'[i].id <= bomb_counter'
       /\ bomb_counter' >= bomb_counter
       /\ \A i \in 1..Len(bombs') :
             bombs'[i].id \in StoredIds \/ bombs'[i].id > bomb_counter]_vars

\* a release after the first record was pruned: the only stored record has id 2
C18_Witness ==
    /\ outcome.op = "add_bomb"
    /\ bomb_counter = 2
    /\ Len(bombs) = 1
    /\ bombs[1].id = 2
    /\ bombs[1].release_time = now

(***************************************************************************)
(* Properties of the rolling log (checked under SpecLog).                  *)
(***************************************************************************)
\* the last n elements of a sequence (all of it when it is shorter)
LastN(s, n) == IF Len(s) <= n THEN s ELSE SubSeq(s, Len(s) - n + 1, Len(s))

\* the step is a call of log
LogStep == outcome'.op = "log" /\ now' = now

\* C17: the rolling log never holds more than 20 lines; a call of log appends
\* its line, and on a log of 20 lines discards exactly the oldest line and keeps
\* the order of the others; add_bomb appends its lines in the same way; get_logs
\* returns the (at most 20) most recent lines, oldest first
C17_LogBounded ==
    [][/\ Len(log_messages') <= 20
       /\ LogStep =>
             /\ log_messages'[Len(log_messages')].message = outcome'.args[1]
             /\ log_messages' =
                  LastN(Append(log_messages, log_messages'[Len(log_messages')]), 20)
             /\ Len(log_messages) = 20 =>
                  SubSeq(log_messages', 1, 19) = Tail(log_messages)
       /\ \E k \in 0..3 :
             log_messages' = LastN(log_messages \o LastN(log_messages', k), 20)
       /\ (outcome'.op = "get_logs" /\ now' = now) => outcome'.value = log_messages]_vars

\* a call of log on a full log discarded the DROP line of an earlier release:
\* the log starts with that release's DIST line and ends with the new line
C17_Witness ==
    /\ outcome.op = "log"
    /\ Len(log_messages) = 20
    /\ log_messages[1].message[1] = "DIST"
    /\ log_messages[2].message[1] = "RELEASED"
    /\ log_messages[20].message[1] = "NOTE"
    /\ log_messages[1].ts < log_messages[20].ts

(***************************************************************************)
(* Properties of the guidance phases and the history (checked under        *)
(* SpecSim).                                                               *)
(***************************************************************************)
\* the step is one completed iteration of the loop of run
IterationStep == pc = "loop" /\ pc' = "loop" /\ frame'.steps = frame.steps + 1

\* C19: the iteration on which BALLISTIC expires sets the phase to GLIDE exactly
\* when the mode is STEEP_DIVE and to LOFT otherwise; in a STEEP_DIVE run LOFT
\* is never active; in a MAX_RANGE or STANDARD run GLIDE is entered from LOFT
\* only, so it is never active unless LOFT was active before
C19_LoftSkippedInDive ==
    [][IterationStep =>
          /\ (frame.phase \in {"RELEASE", "BALLISTIC"}
                 /\ frame'.phase \notin {"RELEASE", "BALLISTIC"}) =>
                /\ frame'.phase = "GLIDE" <=> frame.mode = "STEEP_DIVE"
                /\ frame'.phase = "LOFT" <=> frame.mode # "STEEP_DIVE"
          /\ frame.mode = "STEEP_DIVE" => frame'.phase # "LOFT"
          /\ (frame.mode \in {"MAX_RANGE", "STANDARD"} /\ frame'.phase = "GLIDE") =>
                frame.phase \in {"LOFT", "GLIDE"}
          /\ frame'.mode = frame.mode]_vars

\* a STEEP_DIVE run in GLIDE whose samples so far are all of BALLISTIC
C19_Witness ==
    /\ pc = "loop"
    /\ frame.mode = "STEEP_DIVE"
    /\ frame.skip_loft
    /\ frame.phase = "GLIDE"
    /\ Len(frame.history) >= 1
    /\ \A i \in 1..Len(frame.history) : frame.history[i].phase = "BALLISTIC"

\* C20: a history sample is appended after every 10th integration step and
\* after no other: after n steps the history holds n div 10 samples, the k-th
\* sample has the time 10 * k * dt = 0.5 k seconds, and the sample times are
\* strictly increasing
C20_SampleEveryTenth ==
    pc = "loop" =>
        /\ Len(frame.history) = frame.steps \div 10
        /\ \A k \in 1..Len(frame.history) : TimeMs(frame.history[k].t) = 500 * k
        /\ \A k \in 1..(Len(frame.history) - 1) :
              DblLt(frame.history[k].t, frame.history[k + 1].t)

\* the speed, Mach number and path angle of lines 332-339 at the start of an
\* iteration
StepSpeed(f) == Hypot(f.state[3], f.state[4])

StepMach(f) == MulDiv(StepSpeed(f), 10000, get_sound_speed(f.state[2]))

StepPathAngle(f) == Atan2(f.state[4], f.state[3])

\* the iteration runs the GLIDE branch
GlideStep == IterationStep /\ frame.phase = "GLIDE"

\* the stated pitch schedule: the dive pitch for STEEP_DIVE, else the profile's
\* low pitch below the band, its high pitch above, the interpolation inside
StatedPitch(params, mode, mach) ==
    IF mode = "STEEP_DIVE" THEN PITCH_DIVE
    ELSE IF mach < params.M_LOW THEN params.P_LOW
    ELSE IF mach > params.M_HIGH THEN params.P_HIGH
    ELSE params.P_LOW
           + MulDiv(MulDiv(mach - params.M_LOW, 10000, params.M_HIGH - params.M_LOW),
                    params.P_HIGH - params.P_LOW, 10000)

\* C21: on every GLIDE step the commanded angle of attack is the stated target
\* pitch minus the path angle: for MAX_RANGE and STANDARD the profile's low
\* pitch below the Mach band, its high pitch above it and the linear
\* interpolation inside it, for STEEP_DIVE the dive pitch
C21_PitchSchedule ==
    [][GlideStep =>
          frame'.commanded =
              Radians(StatedPitch(current_physics, frame.mode, StepMach(frame)))
                - StepPathAngle(frame)]_vars

\* the lift (cN) the integrator computes at the start of an iteration for the
\* applied angle alpha: line 186 for RK4 (k1), lines 253 and 270 for Euler
StepLift(params, f, alpha) ==
    IF params.SOLVER = "EULER"
    THEN EulerDragLift(params, alpha, StepMach(f),
                       DynPressure(get_air_density(f.state[2]), StepSpeed(f)),
                       Sin(alpha))[2]
    ELSE DragLift(params, alpha,
                  MulDiv(Max2(StepSpeed(f), 100), 10000, get_sound_speed(f.state[2])),
                  WingPressure(f.state[2], Max2(StepSpeed(f), 100)))[2]

\* C22: on every GLIDE step, whatever the profile and the solver, the lift the
\* integrator uses for the applied angle of attack gives a normal acceleration
\* of at most G_LIMIT (2.75) times g
C22_GlideLoadLimited ==
    [][GlideStep =>
          Abs(MulDiv(StepLift(current_physics, frame, frame'.applied), 100, MASS))
              <= RoundDiv(G_LIMIT * GRAVITY, 100)]_vars

\* C23: the mode is classified once from the launch conditions and stays for
\* the run; on every step the bound profile is PHYSICS_PROFILES[mode]; every
\* step of a STANDARD run is an Euler step and every step of a MAX_RANGE or
\* STEEP_DIVE run an RK4 step; and the mode add_bomb classifies for its record
\* is the mode whose profile run binds
C23_ModeFixed ==
    [][IterationStep =>
          /\ frame.mode = detect_flight_mode(frame.launch_alt_m, frame.launch_speed_mach,
                                             frame.target_dist_m)
          /\ frame'.mode = frame.mode
          /\ current_physics = PHYSICS_PROFILES[frame.mode]
          /\ current_physics' = current_physics
          /\ frame'.state =
                IF frame.mode = "STANDARD"
                THEN euler_step(PHYSICS_PROFILES.STANDARD, frame.state, frame'.commanded)
                ELSE rk4_step(PHYSICS_PROFILES[frame.mode], frame.state, frame'.commanded)
          /\ \A a \in RunArgs, m \in DOMAIN PHYSICS_PROFILES :
                RunTable[PHYSICS_PROFILES[m], a].physics
                    = PHYSICS_PROFILES[detect_flight_mode(a[1], a[2], a[3])]]_vars

\* a STANDARD run in its GLIDE phase, the Euler profile bound
C23_Witness ==
    /\ pc = "loop"
    /\ frame.mode = "STANDARD"
    /\ frame.phase = "GLIDE"
    /\ frame.steps > 100
    /\ current_physics.SOLVER = "EULER"

\* C24: RELEASE is left during the first step; on every step that starts at an
\* elapsed time < 2.5 s the phase is BALLISTIC and the commanded (and applied)
\* angle of attack 0; the first step that starts at a time >= 2.5 s leaves
\* BALLISTIC and still integrates with angle of attack 0; no history sample has
\* the phase RELEASE
C24_BallisticWindow ==
    [][IterationStep =>
          /\ frame.phase = "RELEASE" <=> frame.steps = 0
          /\ frame'.phase # "RELEASE"
          /\ DblLt(frame.t, BALLISTIC_DURATION) =>
                /\ frame.phase \in {"RELEASE", "BALLISTIC"}
                /\ frame'.phase = "BALLISTIC"
                /\ frame'.commanded = 0
                /\ frame'.applied = 0
          /\ (frame.phase \in {"RELEASE", "BALLISTIC"}
                 /\ DblGe(frame.t, BALLISTIC_DURATION)) =>
                /\ frame'.phase \in {"LOFT", "GLIDE"}
                /\ frame'.commanded = 0
                /\ frame'.applied = 0
          /\ \A k \in 1..Len(frame'.history) : frame'.history[k].phase # "RELEASE"]_vars

\* the step on which BALLISTIC expired: LOFT is entered, the step was flown
\* with angle of attack 0 and every sample so far is of BALLISTIC
C24_Witness ==
    /\ pc = "loop"
    /\ frame.phase = "LOFT"
    /\ frame.commanded = 0
    /\ frame.applied = 0
    /\ DblGe(frame.t, BALLISTIC_DURATION)
    /\ Len(frame.history) >= 4
    /\ \A k \in 1..Len(frame.history) : frame.history[k].phase = "BALLISTIC"

\* C25: a LOFT step ends in GLIDE exactly when the path angle exceeds the
\* profile's loft elevation or the elapsed time exceeds 10 s, and in LOFT
\* otherwise; no LOFT step starts later than 10 s + dt; and the LOFT steps of
\* a run lie among 150 consecutive steps (7.5 s), those counted 51 to 200
C25_LoftBounded ==
    [][(IterationStep /\ frame.phase = "LOFT") =>
          /\ frame'.phase \in {"LOFT", "GLIDE"}
          /\ frame'.phase = "GLIDE" <=>
                \/ Degrees(StepPathAngle(frame)) > current_physics.LOFT_ELEV
                \/ DblGt(frame.t, LOFT_TIMEOUT)
          /\ ~DblGt(frame.t, DblAdd(LOFT_TIMEOUT, DT))
          /\ frame.steps >= 51
          /\ frame.steps <= 200]_vars

\* a run whose LOFT ended by the timeout: GLIDE after the step that started
\* just above 10 s, the path angle still below the loft elevation
C25_Witness ==
    /\ pc = "loop"
    /\ frame.phase = "GLIDE"
    /\ frame.steps = 201
    /\ Degrees(StepPathAngle(frame)) < current_physics.LOFT_ELEV
    /\ \E k \in 1..Len(frame.history) : frame.history[k].phase = "LOFT"

\* the remaining ground range and the line-of-sight angle of lines 340 and 383
\* at the start of an iteration
StepDistToGo(f) == f.target_dist_m - f.state[1]

StepLos(f) == Atan2(-f.state[2], StepDistToGo(f))

\* C26: a GLIDE step ends in TERMINAL exactly when the line-of-sight angle is
\* below the profile's terminal threshold or the remaining ground range is
\* below 2000 m, and in GLIDE otherwise; TERMINAL is entered on no step of
\* another phase; a GLIDE step with a negative remaining range ends in TERMINAL
C26_TerminalEntry ==
    [][IterationStep =>
          /\ frame.phase = "GLIDE" =>
                /\ frame'.phase \in {"GLIDE", "TERMINAL"}
                /\ frame'.phase = "TERMINAL" <=>
                      \/ StepLos(frame) < Radians(current_physics.TERM_LOS)
                      \/ StepDistToGo(frame) < 200000
                /\ StepDistToGo(frame) < 0 => frame'.phase = "TERMINAL"
          /\ (frame'.phase = "TERMINAL" /\ frame.phase # "TERMINAL") =>
                frame.phase = "GLIDE"]_vars

\* TERMINAL was entered on the range alone: no TERMINAL step has run yet, the
\* target is less than 2000 m ahead and the line of sight above the threshold
C26_Witness ==
    /\ pc = "loop"
    /\ frame.phase = "TERMINAL"
    /\ frame.prev_los = NoLos
    /\ StepDistToGo(frame) > 0
    /\ StepDistToGo(frame) < 200000
    /\ StepLos(frame) > Radians(current_physics.TERM_LOS)

\* C27: prev_los is unset when a run starts and until its first TERMINAL step;
\* that step commands the angle of attack of a line-of-sight rate of exactly 0
\* and stores its line-of-sight angle; every later TERMINAL step uses the rate
\* (current angle - angle of the previous step) / dt and stores its own angle
C27_LosRateSeeded ==
    [][/\ (pc = "idle" /\ pc' = "loop") => frame'.prev_los = NoLos
       /\ IterationStep =>
             /\ frame.phase # "TERMINAL" => frame.prev_los = NoLos /\ frame'.prev_los = NoLos
             /\ frame.phase = "TERMINAL" =>
                   /\ frame'.prev_los = <<StepLos(frame)>>
                   /\ frame'.commanded =
                         TerminalAoa(StepSpeed(frame), StepPathAngle(frame),
                                     IF frame.prev_los = NoLos THEN 0
                                     ELSE (StepLos(frame) - frame.prev_los[1]) * 20,
                                     WingPressure(frame.state[2], StepSpeed(frame)))]_vars

\* a run shortly after its first TERMINAL step: the line-of-sight angle is
\* stored and no sample of TERMINAL has been taken yet
C27_Witness ==
    /\ pc = "loop"
    /\ frame.phase = "TERMINAL"
    /\ frame.prev_los # NoLos
    /\ frame.commanded # 0
    /\ \A k \in 1..Len(frame.history) : frame.history[k].phase # "TERMINAL"

\* C28: the time of the last history sample of a run differs from the total
\* flight time the run returns by less than one sampling stride (0.5 s)
C28_OneTimeBase ==
    (pc = "idle" /\ ~result.raised /\ Len(result.history) > 0) =>
        Abs(result.tti - TimeMs(result.history[Len(result.history)].t)) < 500

(***************************************************************************)
(* Further properties of the tracker (C29 under Spec, C30 under SpecLife). *)
(***************************************************************************)
\* C29: an add_bomb call that raises leaves the record list, bomb_counter and
\* the rolling log as they were before the call
C29_FailedAddKeepsTracker ==
    [][(outcome'.raised /\ outcome'.op \in {"add_bomb", "on_bomb_release"}) =>
          UNCHANGED <<bombs, bomb_counter, log_messages>>]_vars

\* the positions of the stored records released at or below ground level
GroundPositions == {i \in 1..Len(bombs) : bombs[i].telem.alt <= 0}

\* C30: a release at an altitude at or below zero performs no step: run gives
\* a flight time of 0, a distance of 0 and an empty history; the record stored
\* has impact_time = release_time; every query reports it as IMPACT, never as
\* FLYING; update() keeps it until 5 s after the release and removes it then
C30_GroundRelease ==
    [][/\ \A a \in RunArgs, m \in DOMAIN PHYSICS_PROFILES :
             a[1] <= 0 =>
                /\ ~RunTable[PHYSICS_PROFILES[m], a].result.raised
                /\ RunTable[PHYSICS_PROFILES[m], a].result.steps = 0
                /\ RunTable[PHYSICS_PROFILES[m], a].result.tti = 0
                /\ RunTable[PHYSICS_PROFILES[m], a].result.x_final = 0
                /\ RunTable[PHYSICS_PROFILES[m], a].result.history = << >>
       /\ (AddStep /\ outcome'.args[1] # NONE /\ outcome'.args[1][1] <= 0 /\ outcome'.args[2] # NONE) =>
             /\ ~outcome'.raised
             /\ Len(bombs') = Len(bombs) + 1
             /\ bombs'[Len(bombs')].telem.alt = outcome'.args[1][1]
             /\ bombs'[Len(bombs')].release_time = now
             /\ bombs'[Len(bombs')].impact_time = now
             /\ bombs'[Len(bombs')].total_tti = 0
             /\ bombs'[Len(bombs')].history = << >>
       /\ \A i \in GroundPositions : bombs[i].impact_time = bombs[i].release_time
       /\ QueryStep =>
             \A i \in GroundPositions :
                /\ outcome'.value[i].status = "IMPACT"
                /\ outcome'.value[i].remaining <= 0
       /\ UpdateStep =>
             \A i \in GroundPositions :
                (\E k \in 1..Len(bombs') : bombs'[k] = bombs[i])
                   <=> now < bombs[i].release_time + GRACE_MS]_vars

\* a query some time after a release at ground level shows the record, still
\* kept, as IMPACT with a flight time of 0
C30_Witness ==
    /\ outcome.op = "get_active_bombs"
    /\ \E i \in GroundPositions :
          /\ bombs[i].telem.alt = 0
          /\ bombs[i].release_time < now
          /\ now < bombs[i].release_time + GRACE_MS
          /\ outcome.value[i].id = bombs[i].id
          /\ outcome.value[i].status = "IMPACT"
          /\ outcome.value[i].remaining = bombs[i].release_time - now
          /\ outcome.value[i].total_tti = 0

====
